---- MODULE Spec2Model ----
(***************************************************************************)
(* Model of plot_activity.py: the pipeline main() runs, from the list of   *)
(* completed reviews to the saved heatmap.                                 *)
(*                                                                         *)
(* Instants are whole hours since 1970-01-01T00:00Z.  A calendar date is   *)
(* the number of days since 1970-01-01.  A pandas Series is a record of    *)
(* two parallel sequences, its index and its values.  The index of the     *)
(* daily series holds local midnights; it is modelled by the calendar date *)
(* of each entry, and timedelta(days=n) moves an entry by n calendar days, *)
(* which is what adding n * 24 hours to a local midnight gives as long as  *)
(* no daylight-saving transition lies between the two instants or the two  *)
(* transitions between them cancel, as they do for the dates drawn below.  *)
(***************************************************************************)
EXTENDS Integers, Sequences, FiniteSets

VARIABLES pc, review_data, daily_gain, series, refilled, months, matrix, saved, error, calls

vars == <<pc, review_data, daily_gain, series, refilled, months, matrix, saved, error, calls>>

(***************************************************************************)
(* Bounds of the model and the inputs it draws from.                       *)
(***************************************************************************)
\* Longest list of completed submissions the API returns.
MaxEvents == 2
\* The most recent submission is completed on one of NumLastDays consecutive
\* UTC days starting at FirstLastDay (17318 is Thursday 2017-06-01).
NumLastDays == 7
FirstLastDay == 17318

LastDays == FirstLastDay .. (FirstLastDay + NumLastDays - 1)

\* How many days before the most recent UTC day an older submission lies.
\* 100 days back is in winter (standard time); the others put the first
\* local date just inside, exactly on, or outside the 371-day window.
HistoryDays == {100, 364, 367, 370, 372}

\* The submissions the API may report around the UTC day `day`:
\* completed_at in hours since the epoch, price in USD.
Submissions(day) ==
    { [completed_at |-> 24 * day + 9, price |-> 10],
      [completed_at |-> 24 * day + 2, price |-> 25],
      [completed_at |-> 24 * day + 26, price |-> 40] }
    \cup { [completed_at |-> 24 * (day - h) + 7, price |-> 15 + (h % 4)] : h \in HistoryDays }

RECURSIVE ListsOver(_, _)
ListsOver(S, n) ==
    IF n = 0 THEN { <<>> }
    ELSE LET shorter == ListsOver(S, n - 1)
         IN  shorter \cup { Append(l, e) : l \in { x \in shorter : Len(x) = n - 1 }, e \in S }

\* The bodies reviews.json() may hold.
Responses == UNION { ListsOver(Submissions(day), MaxEvents) : day \in LastDays }

(***************************************************************************)
(* Values                                                                  *)
(***************************************************************************)
\* float('nan'); prices and sums are never negative.
NaN == 0 - 1

None == [isNone |-> TRUE, items |-> <<>>]
Some(l) == [isNone |-> FALSE, items |-> l]

EmptySeries == [index |-> <<>>, values |-> <<>>]

\* Series.shape[0]
shape0(s) == Len(s.index)

(***************************************************************************)
(* Library operations the program calls                                    *)
(***************************************************************************)
\* Index.min() and Index.max(): the least and the greatest entry, wherever
\* it stands in the index.
RECURSIVE MinBetween(_, _, _)
MinBetween(idx, lo, hi) ==
    IF lo = hi THEN idx[lo]
    ELSE LET mid == (lo + hi) \div 2
             a   == MinBetween(idx, lo, mid)
             b   == MinBetween(idx, mid + 1, hi)
         IN  IF b < a THEN b ELSE a

index_min(idx) == MinBetween(idx, 1, Len(idx))

RECURSIVE MaxBetween(_, _, _)
MaxBetween(idx, lo, hi) ==
    IF lo = hi THEN idx[lo]
    ELSE LET mid == (lo + hi) \div 2
             a   == MaxBetween(idx, lo, mid)
             b   == MaxBetween(idx, mid + 1, hi)
         IN  IF b > a THEN b ELSE a

index_max(idx) == MaxBetween(idx, 1, Len(idx))

\* datetime.weekday(): Monday is 0 and Sunday is 6 (1970-01-01 was a Thursday).
weekday(d) == (d + 3) % 7

\* Timestamp.weekday_name
weekday_name(d) ==
    <<"Monday", "Tuesday", "Wednesday", "Thursday", "Friday", "Saturday", "Sunday">>[weekday(d) + 1]

\* The month 1..12 of a calendar date (proleptic Gregorian calendar).
month_of(d) ==
    LET z   == d + 719468
        era == z \div 146097
        doe == z - era * 146097
        yoe == (doe - (doe \div 1460) + (doe \div 36524) - (doe \div 146096)) \div 365
        doy == doe - (365 * yoe + (yoe \div 4) - (yoe \div 100))
        mp  == (5 * doy + 2) \div 153
    IN  IF mp < 10 THEN mp + 3 ELSE mp - 9

\* x.strftime('%b')
strftime_b(d) ==
    <<"Jan", "Feb", "Mar", "Apr", "May", "Jun",
      "Jul", "Aug", "Sep", "Oct", "Nov", "Dec">>[month_of(d)]

\* pytz.timezone('US/Pacific'): daylight time (UTC-7) from the second Sunday
\* of March 10:00Z to the first Sunday of November 09:00Z, standard time
\* (UTC-8) otherwise.  The periods of 2016 and 2017, in hours since the epoch.
DaylightPeriods == { <<404962, 410673>>, <<413698, 419409>> }

utcoffset(t) ==
    IF \E p \in DaylightPeriods : p[1] <= t /\ t < p[2] THEN 0 - 7 ELSE 0 - 8

\* A variant of tz_convert that leaves the instants on the UTC clock.
tz_left_utc(s) == s

\* Series.tz_localize(utc).tz_convert(timezone): the same instants, read on
\* the local wall clock (hours since the epoch of the local clock).
tz_convert(s) ==
    [index |-> [i \in 1..Len(s.index) |-> s.index[i] + utcoffset(s.index[i])],
     values |-> s.values]

\* pd.date_range(a, b): every day from a to b, none when b is before a.
date_range(a, b) ==
    IF b < a THEN <<>> ELSE [i \in 1..(b - a + 1) |-> a + i - 1]

\* pd.concat([s1, s2]): the entries of s1, then those of s2.
concat(s1, s2) ==
    [index |-> s1.index \o s2.index, values |-> s1.values \o s2.values]

\* Series.sort_index(): entries in ascending order of their index (stable).
RECURSIVE InsertSorted(_, _, _)
InsertSorted(s, t, v) ==
    IF Len(s.index) = 0 \/ s.index[Len(s.index)] <= t
    THEN [index |-> Append(s.index, t), values |-> Append(s.values, v)]
    ELSE LET n    == Len(s.index)
             init == [index |-> SubSeq(s.index, 1, n - 1), values |-> SubSeq(s.values, 1, n - 1)]
             rest == InsertSorted(init, t, v)
         IN  [index |-> Append(rest.index, s.index[n]), values |-> Append(rest.values, s.values[n])]

RECURSIVE SortFrom(_, _, _)
SortFrom(s, i, acc) ==
    IF i > Len(s.index) THEN acc
    ELSE SortFrom(s, i + 1, InsertSorted(acc, s.index[i], s.values[i]))

sort_index(s) == SortFrom(s, 1, EmptySeries)

\* The sum of the values of s whose instant falls on the local day `day`, and
\* how many there are.
RECURSIVE DaySum(_, _, _)
DaySum(s, day, i) ==
    IF i > Len(s.index) THEN 0
    ELSE (IF s.index[i] \div 24 = day THEN s.values[i] ELSE 0) + DaySum(s, day, i + 1)

DayCount(s, day) == Cardinality({ i \in 1..Len(s.index) : s.index[i] \div 24 = day })

\* Series.groupby(pd.TimeGrouper('D')).sum(): one bin per calendar day from
\* the day of the earliest entry to the day of the latest; a bin holds the
\* sum of its entries, a bin without entries holds empty_sum (NaN or 0,
\* depending on the pandas release).
groupby_day_sum(s, empty_sum) ==
    LET first == index_min(s.index) \div 24
        last  == index_max(s.index) \div 24
        days  == date_range(first, last)
    IN  [index |-> days,
         values |-> [i \in 1..Len(days) |->
                        IF DayCount(s, days[i]) = 0 THEN empty_sum
                        ELSE DaySum(s, days[i], 1)]]

\* A variant of fillna that leaves the series as it is.
fillna_keeps_nan(s, v) == s

\* Series.fillna(v)
fillna(s, v) ==
    [index |-> s.index,
     values |-> [i \in 1..Len(s.values) |-> IF s.values[i] = NaN THEN v ELSE s.values[i]]]

\* series[:n], the first n entries instead of the last.
first_n(s, n) ==
    LET len == Len(s.index)
        to  == IF len > n THEN n ELSE len
    IN  [index |-> SubSeq(s.index, 1, to), values |-> SubSeq(s.values, 1, to)]

\* series[-n:]
last_n(s, n) ==
    LET len == Len(s.index)
        from == IF len > n THEN len - n + 1 ELSE 1
    IN  [index |-> SubSeq(s.index, from, len), values |-> SubSeq(s.values, from, len)]

(***************************************************************************)
(* The functions of plot_activity.py                                       *)
(***************************************************************************)
number_of_days == 371
saturday_id == 5
n_weekdays == 7

\* get_data: the body of the response when the status is 200 and the body
\* is not empty, None otherwise.
get_data(status_code, json) ==
    IF status_code = 200 /\ Len(json) > 0 THEN Some(json) ELSE None

\* get_daily_gain, for a list `data`: prices indexed by completion instant,
\* sorted, converted from UTC to US/Pacific and summed by local day.
get_daily_gain(data, empty_sum) ==
    LET price_series == [index |-> [i \in 1..Len(data) |-> data[i].completed_at],
                         values |-> [i \in 1..Len(data) |-> data[i].price]]
        sorted       == sort_index(price_series)
        local        == tz_convert(sorted)
    IN  groupby_day_sum(local, empty_sum)

\* A variant of create_timeseries that stops one day short.
create_timeseries_short(starting_date, ending_date, value) ==
    LET timeseries_index == date_range(starting_date, ending_date - 1)
    IN  [index |-> timeseries_index,
         values |-> [i \in 1..Len(timeseries_index) |-> value]]

create_timeseries(starting_date, ending_date, value) ==
    LET timeseries_index == date_range(starting_date, ending_date)
    IN  [index |-> timeseries_index,
         values |-> [i \in 1..Len(timeseries_index) |-> value]]

\* A variant of ending_date_of that also moves on from a Saturday.
ending_date_past_saturday(last_date) ==
    LET days_ahead == saturday_id - weekday(last_date)
    IN  last_date + (IF days_ahead <= 0 THEN days_ahead + 7 ELSE days_ahead)

\* The date fill_week fills up to.
ending_date_of(last_date) ==
    LET days_ahead == saturday_id - weekday(last_date)
    IN  last_date + (IF days_ahead < 0 THEN days_ahead + 7 ELSE days_ahead)

\* A variant of fill_week whose filling starts at the last date itself.
fill_week_from_last(timeseries, value) ==
    LET last_date         == index_max(timeseries.index)
        ending_date       == ending_date_of(last_date)
        date_range_series == create_timeseries(last_date, ending_date, value)
    IN  concat(timeseries, date_range_series)

fill_week(timeseries, value) ==
    LET last_date         == index_max(timeseries.index)
        ending_date       == ending_date_of(last_date)
        date_range_series == create_timeseries(last_date + 1, ending_date, value)
    IN  concat(timeseries, date_range_series)

\* A variant of starting_date_of that steps back one day less.
starting_date_short(last_date) ==
    LET one_year_date == last_date - 365
    IN  one_year_date - weekday(one_year_date)

\* The date fill_year fills from.
starting_date_of(last_date) ==
    LET one_year_date == last_date - 365
    IN  one_year_date - (weekday(one_year_date) + 1)

fill_year(timeseries, value) ==
    LET first_date        == index_min(timeseries.index)
        last_date         == index_max(timeseries.index)
        starting_date     == starting_date_of(last_date)
        date_range_series == create_timeseries(starting_date, first_date - 1, value)
    IN  concat(date_range_series, timeseries)

\* months[::n_weekdays]
every_nth(l, n) ==
    [c \in 1..((Len(l) + n - 1) \div n) |-> l[n * (c - 1) + 1]]

\* A variant of the loop that blanks every month seen before.
RECURSIVE replace_seen(_, _, _)
replace_seen(ms, n, current_month) ==
    IF n > Len(ms) THEN ms
    ELSE IF \E j \in 1..(n - 1) : ms[j] = ms[n]
         THEN replace_seen([ms EXCEPT ![n] = ""], n + 1, current_month)
         ELSE replace_seen(ms, n + 1, ms[n])

\* The loop that blanks a month equal to the current month.
RECURSIVE replace_repeated(_, _, _)
replace_repeated(ms, n, current_month) ==
    IF n > Len(ms) THEN ms
    ELSE IF ms[n] = current_month
         THEN replace_repeated([ms EXCEPT ![n] = ""], n + 1, current_month)
         ELSE replace_repeated(ms, n + 1, ms[n])

month_labels(s) ==
    LET all == [i \in 1..Len(s.index) |-> strftime_b(s.index[i])]
    IN  replace_repeated(every_nth(all, n_weekdays), 1, "")

\* A variant of reshape_T without the transposition: reshape(n_weekdays, -1).
reshape_rows(values) ==
    LET cols == Len(values) \div n_weekdays
    IN  [r \in 1..n_weekdays |-> [c \in 1..cols |-> values[cols * (r - 1) + c]]]

\* series.values.reshape(-1, n_weekdays).T: row r, column c (from 1).
reshape_T(values) ==
    [r \in 1..n_weekdays |->
        [c \in 1..(Len(values) \div n_weekdays) |-> values[n_weekdays * (c - 1) + r]]]

yticklabels == <<"", "M", "", "W", "", "F", "">>

(***************************************************************************)
(* The pipeline: main() and plot_activity(), one step per action           *)
(***************************************************************************)
Init ==
    /\ pc = "start"
    /\ review_data = None
    /\ daily_gain = EmptySeries
    /\ series = EmptySeries
    /\ refilled = EmptySeries
    /\ months = <<>>
    /\ matrix = <<>>
    /\ saved = FALSE
    /\ error = ""
    /\ calls = <<>>

\* main: review_data = get_data(token)
GetData ==
    /\ pc = "start"
    /\ \E status_code \in {200, 500}, json \in Responses :
          review_data' = get_data(status_code, json)
    /\ pc' = "fetched"
    /\ calls' = Append(calls, "get_data")
    /\ UNCHANGED <<daily_gain, series, months, matrix, saved, error, refilled>>

\* main: daily_gain = get_daily_gain(review_data).  Iterating over None
\* raises TypeError, which nothing catches.
GetDailyGain ==
    /\ pc = "fetched"
    /\ calls' = Append(calls, "get_daily_gain")
    /\ IF review_data.isNone
       THEN /\ pc' = "failed"
            /\ error' = "TypeError"
            /\ UNCHANGED daily_gain
       ELSE /\ \E empty_sum \in {NaN, 0} :
                  daily_gain' = get_daily_gain(review_data.items, empty_sum)
            /\ pc' = "bucketed"
            /\ UNCHANGED error
    /\ UNCHANGED <<review_data, series, months, matrix, saved, refilled>>

\* main: daily_gain = daily_gain.fillna(0)
Fillna ==
    /\ pc = "bucketed"
    /\ daily_gain' = fillna(daily_gain, 0)
    /\ pc' = "filled"
    /\ calls' = Append(calls, "fillna")
    /\ UNCHANGED <<review_data, series, months, matrix, saved, error, refilled>>

\* plot_activity: series = fill_week(series)
FillWeek ==
    /\ pc = "filled"
    /\ series' = fill_week(daily_gain, 0)
    /\ pc' = "week_filled"
    /\ calls' = Append(calls, "fill_week")
    /\ UNCHANGED <<review_data, daily_gain, months, matrix, saved, error, refilled>>

\* plot_activity: series.shape[0] > number_of_days
Truncate ==
    /\ pc = "week_filled"
    /\ shape0(series) > number_of_days
    /\ series' = last_n(series, number_of_days)
    /\ pc' = "sized"
    /\ calls' = Append(calls, "truncate")
    /\ UNCHANGED <<review_data, daily_gain, months, matrix, saved, error, refilled>>

\* plot_activity: series.shape[0] < number_of_days, with the assertion of
\* fill_year and the assertion that follows the call.
FillYear ==
    /\ pc = "week_filled"
    /\ shape0(series) < number_of_days
    /\ calls' = Append(calls, "fill_year")
    /\ IF weekday_name(starting_date_of(index_max(series.index))) # "Sunday"
       THEN /\ pc' = "failed"
            /\ error' = "AssertionError"
            /\ UNCHANGED series
       ELSE /\ series' = fill_year(series, 0)
            /\ IF shape0(series') = number_of_days
               THEN pc' = "sized" /\ UNCHANGED error
               ELSE pc' = "failed" /\ error' = "AssertionError"
    /\ UNCHANGED <<review_data, daily_gain, months, matrix, saved, refilled>>

\* plot_activity: the series already has number_of_days entries.
KeepLength ==
    /\ pc = "week_filled"
    /\ shape0(series) = number_of_days
    /\ pc' = "sized"
    /\ UNCHANGED <<review_data, daily_gain, series, months, matrix, saved, error, calls, refilled>>

\* plot_activity: the months of the weeks, repeated months replaced.
MonthLabels ==
    /\ pc = "sized"
    /\ months' = month_labels(series)
    /\ pc' = "labelled"
    /\ UNCHANGED <<review_data, daily_gain, series, matrix, saved, error, calls, refilled>>

\* plot_activity: sns.heatmap of the reshaped values; reshape raises
\* ValueError when the length is no multiple of n_weekdays.
Heatmap ==
    /\ pc = "labelled"
    /\ IF shape0(series) % n_weekdays # 0
       THEN /\ pc' = "failed"
            /\ error' = "ValueError"
            /\ UNCHANGED matrix
       ELSE /\ matrix' = reshape_T(series.values)
            /\ pc' = "plotted"
            /\ UNCHANGED error
    /\ calls' = Append(calls, "heatmap")
    /\ UNCHANGED <<review_data, daily_gain, series, months, saved, refilled>>

\* plot_activity: plt.savefig(savename)
Savefig ==
    /\ pc = "plotted"
    /\ saved' = TRUE
    /\ pc' = "done"
    /\ calls' = Append(calls, "savefig")
    /\ UNCHANGED <<review_data, daily_gain, series, months, matrix, error, refilled>>

Next ==
    \/ GetData
    \/ GetDailyGain
    \/ Fillna
    \/ FillWeek
    \/ Truncate
    \/ FillYear
    \/ KeepLength
    \/ MonthLabels
    \/ Heatmap
    \/ Savefig

Spec == Init /\ [][Next]_vars

(***************************************************************************)
(* The fill step of plot_activity applied a second time, to the series the *)
(* first application produced.                                             *)
(***************************************************************************)
FillAgain ==
    /\ pc = "sized"
    /\ LET week == fill_week(series, 0)
       IN  IF shape0(week) > number_of_days
           THEN /\ refilled' = last_n(week, number_of_days)
                /\ pc' = "refilled"
                /\ UNCHANGED error
           ELSE IF shape0(week) < number_of_days
           THEN IF \/ weekday_name(starting_date_of(index_max(week.index))) # "Sunday"
                   \/ shape0(fill_year(week, 0)) # number_of_days
                THEN /\ pc' = "failed"
                     /\ error' = "AssertionError"
                     /\ UNCHANGED refilled
                ELSE /\ refilled' = fill_year(week, 0)
                     /\ pc' = "refilled"
                     /\ UNCHANGED error
           ELSE /\ refilled' = week
                /\ pc' = "refilled"
                /\ UNCHANGED error
    /\ UNCHANGED <<review_data, daily_gain, series, months, matrix, saved, calls>>

NextTwice ==
    \/ Next
    \/ FillAgain

SpecTwice == Init /\ [][NextTwice]_vars

(***************************************************************************)
(* Vocabulary of the properties                                            *)
(***************************************************************************)
\* Days since the last Sunday: 0 for a Sunday ... 6 for a Saturday
\* (17321 is Sunday 2017-06-04).
DaysFromSunday(d) == (d - 17321) % 7

\* Positions of a list, and whether a name is among the calls made so far.
Called(name) == \E i \in 1..Len(calls) : calls[i] = name

\* The events the pipeline works on, and the local calendar date of one.
Events == review_data.items
HasEvents == ~review_data.isNone
LocalDate(e) == (e.completed_at + utcoffset(e.completed_at)) \div 24
EventDates == { LocalDate(Events[i]) : i \in 1..Len(Events) }
FirstEventDate == CHOOSE d \in EventDates : \A x \in EventDates : d <= x
LastEventDate == CHOOSE d \in EventDates : \A x \in EventDates : x <= d

\* The sum of the amounts of the events of local date d (0 when none).
RECURSIVE AmountFrom(_, _)
AmountFrom(d, i) ==
    IF i > Len(Events) THEN 0
    ELSE (IF LocalDate(Events[i]) = d THEN Events[i].price ELSE 0) + AmountFrom(d, i + 1)

AmountOn(d) == AmountFrom(d, 1)

\* The anchors of the window: the Saturday on or after the last event date,
\* and the day total_days - 1 before it.
EndAnchor == CHOOSE e \in LastEventDate .. (LastEventDate + 6) : DaysFromSunday(e) = 6
StartAnchor == EndAnchor - (number_of_days - 1)

\* The states in which plot_activity has finished its fill step.
Filled == pc \in {"sized", "labelled", "plotted", "done", "refilled"}

WindowDates ==
    LET start == StartAnchor
    IN  [i \in 1..number_of_days |-> start + i - 1]

UtcHour(e) == e.completed_at % 24
UtcDate(e) == e.completed_at \div 24

\* C5: the buckets of get_daily_gain are local calendar dates: there is one
\* bucket per date from the first to the last local event date, the bucket
\* of a date with events holds the sum of exactly the events whose local
\* date it is, and two events of one UTC day at 02:00Z and 09:00Z, at
\* offset UTC-7, lie in two consecutive buckets.
C5_LocalBuckets ==
    pc = "bucketed" =>
        /\ LET first == FirstEventDate
               last  == LastEventDate
           IN  daily_gain.index = [i \in 1..(last - first + 1) |-> first + i - 1]
        /\ \A i \in 1..Len(daily_gain.index) :
              LET d == daily_gain.index[i]
              IN  IF \E j \in 1..Len(Events) : LocalDate(Events[j]) = d
                  THEN daily_gain.values[i] = AmountOn(d)
                  ELSE daily_gain.values[i] \in {NaN, 0}
        /\ \A a, b \in 1..Len(Events) :
              (/\ UtcDate(Events[a]) = UtcDate(Events[b])
               /\ UtcHour(Events[a]) = 2
               /\ UtcHour(Events[b]) = 9
               /\ utcoffset(Events[a].completed_at) = 0 - 7) =>
                  \E i \in 1..(Len(daily_gain.index) - 1) :
                      /\ daily_gain.index[i] = UtcDate(Events[a]) - 1
                      /\ daily_gain.index[i + 1] = UtcDate(Events[b])
                      /\ (Len(Events) = 2 =>
                            daily_gain.values = <<Events[a].price, Events[b].price>>)

\* The two events of the example, reported latest first.
C5_Witness ==
    /\ pc = "bucketed"
    /\ Len(Events) = 2
    /\ UtcDate(Events[1]) = UtcDate(Events[2])
    /\ UtcHour(Events[1]) = 9
    /\ UtcHour(Events[2]) = 2
    /\ daily_gain.values = <<Events[2].price, Events[1].price>>

(***************************************************************************)
(* C6                                                                      *)
(***************************************************************************)
\* C6: when the event source yields no usable events (a failed response or
\* an empty list, both turned into None by get_data), bucketizing fails
\* with NoDataError and the pipeline does not proceed: no window is filled,
\* no grid is laid out and nothing is rendered.
C6_NoDataError ==
    (~HasEvents /\ pc \notin {"start", "fetched"}) =>
        /\ pc = "failed"
        /\ error = "NoDataError"
        /\ daily_gain = EmptySeries
        /\ series = EmptySeries
        /\ months = <<>>
        /\ matrix = <<>>
        /\ ~saved

\* C6, the part of it the code satisfies: without events the run ends in
\* get_daily_gain with an uncaught error, before anything is filled, laid
\* out or rendered.
C6_StopsAtGetDailyGain ==
    (~HasEvents /\ pc \notin {"start", "fetched"}) =>
        /\ pc = "failed"
        /\ error = "TypeError"
        /\ calls = <<"get_data", "get_daily_gain">>
        /\ daily_gain = EmptySeries
        /\ series = EmptySeries
        /\ months = <<>>
        /\ matrix = <<>>
        /\ ~saved

C8_MonthLabels ==
    /\ replace_repeated(<<"Jan", "Jan", "Feb", "Feb", "Feb">>, 1, "")
          = <<"Jan", "", "Feb", "", "">>
    /\ replace_repeated(<<"May", "Jun", "May">>, 1, "") = <<"May", "Jun", "May">>
    /\ pc \in {"labelled", "plotted", "done"} =>
          LET start == StartAnchor
              cols  == number_of_days \div 7
          IN  /\ Len(months) = cols
              /\ \A c \in 1..cols :
                    LET m == strftime_b(start + 7 * (c - 1))
                    IN  months[c] = IF c = 1 \/ m # strftime_b(start + 7 * (c - 2))
                                    THEN m ELSE ""

\* A window whose first month comes back at its end and is labelled twice.
C8_Witness ==
    /\ pc = "done"
    /\ months[1] # ""
    /\ months[2] = ""
    /\ \E c \in 3..Len(months) : months[c] = months[1]

TwoAnchorFill(sparse, total_days) ==
    LET n            == Len(sparse.index)
        first        == sparse.index[1]
        last         == sparse.index[n]
        end_anchor   == CHOOSE e \in last .. (last + 6) : DaysFromSunday(e) = 6
        start_anchor == end_anchor - (total_days - 1)
    IN  [index  |-> [i \in 1..total_days |-> start_anchor + i - 1],
         values |-> [i \in 1..total_days |->
                        LET d == start_anchor + i - 1
                        IN  IF first <= d /\ d <= last THEN sparse.values[d - first + 1] ELSE 0]]

====
